---- MODULE Spec2Model ----
(***************************************************************************)
(* A model of pynergy.py: the reformatter eigenformat(), the transition   *)
(* scanner transitions() and the top-level script that calls them.        *)
(*                                                                         *)
(* Text is a sequence of one-character strings, files are texts, and the   *)
(* file system maps a path to a file.  Energies are exact decimals with 6  *)
(* fractional digits, held as integers in micro-eV (1.5 eV = 1500000).     *)
(***************************************************************************)
EXTENDS Integers, Sequences, FiniteSets, TLC

VARIABLES args, fs, ro, pc, call, eigen, kpt, start, finish, scratch, written, log

vars == <<args, fs, ro, pc, call, eigen, kpt, start, finish, scratch, written, log>>

(***************************************************************************)
(* Characters and text helpers (Python str methods).                       *)
(***************************************************************************)
NL == "\n"

Digits == <<"0", "1", "2", "3", "4", "5", "6", "7", "8", "9">>

IsDigit(c) == \E d \in 1..10 : Digits[d] = c

DigitVal(c) == (CHOOSE d \in 1..10 : Digits[d] = c) - 1

Marker == <<"k", "p", "t", "#">>

Micro == 10^6

\* s[i..j], empty when j < i
Slice(s, i, j) == IF j < i THEN <<>> ELSE SubSeq(s, i, j)

\* does text s hold the text m at position i
MatchAt(s, m, i) == i + Len(m) - 1 <= Len(s) /\ SubSeq(s, i, i + Len(m) - 1) = m

\* str.replace(old, new): the non-overlapping occurrences of old, left to right
RECURSIVE ReplaceFrom(_, _, _, _)
ReplaceFrom(s, old, new, i) ==
    IF i > Len(s) THEN <<>>
    ELSE IF MatchAt(s, old, i) THEN new \o ReplaceFrom(s, old, new, i + Len(old))
    ELSE <<s[i]>> \o ReplaceFrom(s, old, new, i + 1)

Replace(s, old, new) == ReplaceFrom(s, old, new, 1)

\* str.split(sep) for a one-character sep: always at least one piece
RECURSIVE SplitFrom(_, _, _, _)
SplitFrom(s, sep, i, cur) ==
    IF i > Len(s) THEN <<cur>>
    ELSE IF s[i] = sep THEN <<cur>> \o SplitFrom(s, sep, i + 1, <<>>)
    ELSE SplitFrom(s, sep, i + 1, Append(cur, s[i]))

Split(s, sep) == SplitFrom(s, sep, 1, <<>>)

\* sep.join(pieces)
RECURSIVE Join(_, _)
Join(pieces, sep) ==
    IF pieces = <<>> THEN <<>>
    ELSE IF Len(pieces) = 1 THEN pieces[1]
    ELSE pieces[1] \o <<sep>> \o Join(Tail(pieces), sep)

\* re.sub(r',.*\)', "", s): leftmost match, '.' matches anything but a newline,
\* '.*' is greedy, so a match runs from a comma to the LAST closing parenthesis
\* that follows it on the same line
SubEnds(s, i) ==
    {j \in (i + 1)..Len(s) : s[j] = ")" /\ \A m \in (i + 1)..(j - 1) : s[m] # NL}

RECURSIVE ReSubFrom(_, _)
ReSubFrom(s, i) ==
    IF i > Len(s) THEN <<>>
    ELSE IF s[i] = "," /\ SubEnds(s, i) # {}
         THEN LET j == CHOOSE x \in SubEnds(s, i) : \A y \in SubEnds(s, i) : y <= x
              IN  ReSubFrom(s, j + 1)
    ELSE <<s[i]>> \o ReSubFrom(s, i + 1)

ReSub(s) == ReSubFrom(s, 1)

(***************************************************************************)
(* eigenformat(): the text it writes for the text it reads.                *)
(***************************************************************************)
Collapse(raw) == Replace(Replace(raw, <<NL>>, <<>>), Marker, <<NL>>)

\* the slip of keeping the preamble: sub.split('\n') without the [1:]
DropNothing(lines) == lines

DropFirst(lines) == Slice(lines, 2, Len(lines))

EigenformatText(raw) == Join(DropFirst(Split(ReSub(Collapse(raw)), NL)), NL)

(***************************************************************************)
(* numpy.loadtxt(): comments from '#', blank lines skipped, fields split   *)
(* on whitespace, every field a float, every row the same number of        *)
(* fields, and the result squeezed (ndmin = 0): axes of length 1 vanish.   *)
(***************************************************************************)
AllDigits(ds) == \A i \in 1..Len(ds) : IsDigit(ds[i])

RECURSIVE IntVal(_)
IntVal(ds) ==
    IF ds = <<>> THEN 0
    ELSE IntVal(SubSeq(ds, 1, Len(ds) - 1)) * 10 + DigitVal(ds[Len(ds)])

\* the first six fractional digits, as micro-units
FracVal(ds) ==
    IntVal([i \in 1..6 |-> IF i <= Len(ds) THEN ds[i] ELSE "0"])

Unsigned(tok) == IF tok # <<>> /\ tok[1] = "-" THEN Tail(tok) ELSE tok

\* float(tok) succeeds: [-] digits [. [digits]]  or  [-] . digits
IsFloat(tok) ==
    LET parts == Split(Unsigned(tok), ".")
    IN  /\ Len(parts) \in {1, 2}
        /\ \A i \in 1..Len(parts) : AllDigits(parts[i])
        /\ \E i \in 1..Len(parts) : parts[i] # <<>>

ParseFloat(tok) ==
    LET parts == Split(Unsigned(tok), ".")
        mag   == IntVal(parts[1]) * Micro
                 + (IF Len(parts) = 2 THEN FracVal(parts[2]) ELSE 0)
    IN  IF tok[1] = "-" THEN 0 - mag ELSE mag

FirstHash(line) ==
    IF \E i \in 1..Len(line) : line[i] = "#"
    THEN CHOOSE i \in 1..Len(line) : line[i] = "#" /\ \A j \in 1..(i - 1) : line[j] # "#"
    ELSE Len(line) + 1

StripComment(line) == Slice(line, 1, FirstHash(line) - 1)

\* line.split(): the non-empty runs between blanks
Fields(line) == SelectSeq(Split(line, " "), LAMBDA f : f # <<>>)

DataLines(text) ==
    LET lines == Split(text, NL)
    IN  SelectSeq([i \in 1..Len(lines) |-> Fields(StripComment(lines[i]))],
                  LAMBDA fl : fl # <<>>)

Squeeze(dims) == SelectSeq(dims, LAMBDA d : d # 1)

NoArray == [ok |-> FALSE, ndim |-> 0, shape |-> <<>>, rows |-> <<>>]

loadtxt(text) ==
    LET dl == DataLines(text)
    IN  IF dl = <<>> THEN [ok |-> TRUE, ndim |-> 1, shape |-> <<0>>, rows |-> <<>>]
        ELSE IF \E r \in 1..Len(dl) :
                   \/ Len(dl[r]) # Len(dl[1])
                   \/ \E c \in 1..Len(dl[r]) : ~IsFloat(dl[r][c])
        THEN NoArray
        ELSE LET shape == Squeeze(<<Len(dl), Len(dl[1])>>)
             IN  [ok    |-> TRUE,
                  ndim  |-> Len(shape),
                  shape |-> shape,
                  rows  |-> [r \in 1..Len(dl) |->
                               [c \in 1..Len(dl[1]) |-> ParseFloat(dl[r][c])]]]

\* len(a) raises TypeError on a 0-d array or a scalar
LenOK(a) == a.ndim >= 1

PyLen(a) == a.shape[1]

\* a[0] raises IndexError on an empty axis
Item0OK(a) == LenOK(a) /\ PyLen(a) >= 1

Item0(a) == [ok |-> TRUE, ndim |-> a.ndim - 1, shape |-> Tail(a.shape), rows |-> <<>>]

\* lines 39-41 run through: loadtxt parsed, len(eigen) and len(eigen[0]) exist
LoadOK(a) == a.ok /\ Item0OK(a) /\ LenOK(Item0(a))

kpts(a) == PyLen(a)

bands(a) == PyLen(Item0(a))

\* eigen[k, b] of a 2-d array, 0-based
At(a, k, b) == a.rows[k + 1][b + 1]

(***************************************************************************)
(* str.format(): the two renderings of a match.                            *)
(***************************************************************************)
OFFSET == 0

Abs(x) == IF x < 0 THEN 0 - x ELSE x

RECURSIVE IntStr(_)
IntStr(n) ==
    IF n < 10 THEN <<Digits[n + 1]>>
    ELSE Append(IntStr(n \div 10), Digits[(n % 10) + 1])

\* '{:0>w}': filled with "0" on the left up to width w, never cut
PadLeft(s, w) == [i \in 1..(IF w > Len(s) THEN w - Len(s) ELSE 0) |-> "0"] \o s

\* the last w digits of n, zero-filled
FixedDigits(n, w) == PadLeft(IntStr(n), w)

\* '{:.6f}' of v micro-units
Fixed6(v) ==
    (IF v < 0 THEN <<"-">> ELSE <<>>)
    \o IntStr(Abs(v) \div Micro) \o <<".">> \o FixedDigits(Abs(v) % Micro, 6)

\* '{:.5f}' of t units of 10^-5
Fixed5(t) ==
    (IF t < 0 THEN <<"-">> ELSE <<>>)
    \o IntStr(Abs(t) \div 100000) \o <<".">> \o FixedDigits(Abs(t) % 100000, 5)

\* v micro-units rounded to 5 decimals: a decimal tie goes the way the binary
\* value of the float lies, which the decimal does not tell, so both are kept
Round5(v) ==
    LET a == Abs(v)
        sgn(t) == IF v < 0 THEN 0 - t ELSE t
    IN  IF a % 10 < 5 THEN {sgn(a \div 10)}
        ELSE IF a % 10 > 5 THEN {sgn(a \div 10 + 1)}
        ELSE {sgn(a \div 10), sgn(a \div 10 + 1)}

\* 'set arrow from {0},{1:.5f} to {0},{2:.5f}\n'
GnuplotLine(k1, o5, t5) ==
    <<"s", "e", "t", " ", "a", "r", "r", "o", "w", " ", "f", "r", "o", "m", " ">>
    \o IntStr(k1) \o <<",">> \o Fixed5(o5)
    \o <<" ", "t", "o", " ">>
    \o IntStr(k1) \o <<",">> \o Fixed5(t5) \o <<NL>>

\* the slip of a field one wider: '{0:0>10.6f} eV | ...'
TextLineTenWide(df, k1, s, f) ==
    PadLeft(Fixed6(df), 10)
    \o <<" ", "e", "V", " ", "|", " ">>
    \o <<"k", "-", "p", "o", "i", "n", "t", ":", " ">> \o PadLeft(IntStr(k1), 3)
    \o <<" ", "|", " ">>
    \o <<"b", "a", "n", "d", "s", ":", " ">> \o PadLeft(IntStr(s), 2)
    \o <<" ", "-", ">", " ">> \o PadLeft(IntStr(f), 2) \o <<NL>>

\* '{0:0>9.6f} eV | k-point: {1:0>3d} | bands: {2:0>2d} -> {3:0>2d}\n'
TextLine(df, k1, s, f) ==
    PadLeft(Fixed6(df), 9)
    \o <<" ", "e", "V", " ", "|", " ">>
    \o <<"k", "-", "p", "o", "i", "n", "t", ":", " ">> \o PadLeft(IntStr(k1), 3)
    \o <<" ", "|", " ">>
    \o <<"b", "a", "n", "d", "s", ":", " ">> \o PadLeft(IntStr(s), 2)
    \o <<" ", "-", ">", " ">> \o PadLeft(IntStr(f), 2) \o <<NL>>

\* the slip of the two signs exchanged:
\* args.energy + args.delta <= diff <= args.energy - args.delta
InWindowSignsSwapped(df, energy, delta) ==
    energy + delta <= df /\ df <= energy - delta

\* line 51: the closed tolerance window
InWindow(df, energy, delta) == energy - delta <= df /\ df <= energy + delta

\* the slip of the loops nested the other way, the k-point loop innermost:
\* entered at (0, 1, 2), then after (k, s, f - 1) the next k-point of the same
\* pair of bands, and after the last k-point the next pair
SeekKptInnermost(k, s, f, nk, nb) ==
    IF f = s + 1 THEN (IF nk > 0 /\ nb > 2 THEN <<0, 1, 2>> ELSE <<>>)
    ELSE IF k + 1 < nk THEN <<k + 1, s, f - 1>>
    ELSE IF f < nb THEN <<0, s, f>>
    ELSE IF s + 2 < nb THEN <<0, s + 1, s + 2>>
    ELSE <<>>

\* the loop position the three nested range() loops reach from (k, s, f):
\* the first (k, s, f) or later triple inside the ranges, <<>> when they are done
RECURSIVE Seek(_, _, _, _, _)
Seek(k, s, f, nk, nb) ==
    IF k >= nk THEN <<>>
    ELSE IF s >= nb THEN Seek(k + 1, 1, 2, nk, nb)
    ELSE IF f >= nb THEN Seek(k, s + 1, s + 2, nk, nb)
    ELSE <<k, s, f>>

(***************************************************************************)
(* The file system and the program state.                                  *)
(*   args     the parsed command line (lines 73-88)                        *)
(*   fs       path -> file; ro: the paths that cannot be opened to write   *)
(*   pc       the statement the script is at                               *)
(*   call     the arguments of the function being run                      *)
(*   eigen, kpt, start, finish, scratch: locals of transitions(); scratch  *)
(*            is "none", "open" or "closed"                               *)
(*   written  the match records written so far, in the order written       *)
(*   log      the calls, returns, raises and file opens so far             *)
(***************************************************************************)
Paths == {"EIG", "eigen.dat", "transitions.dat"}

NoFile == [exists |-> FALSE, data |-> <<>>]

File(text) == [exists |-> TRUE, data |-> text]

Event(op, fn, path) == [op |-> op, fn |-> fn, path |-> path]

NoCall == [inputfile |-> "", outputfile |-> ""]

\* lines 90-92: --convert given, eigenformat(args.input, "eigen.dat") is called
MainConvert ==
    /\ pc = "main"
    /\ args.convert
    /\ pc' = "eigenformat"
    /\ call' = [inputfile |-> args.input, outputfile |-> "eigen.dat"]
    /\ log' = Append(log, Event("call", "eigenformat", args.input))
    /\ UNCHANGED <<args, fs, ro, eigen, kpt, start, finish, scratch, written>>

\* lines 25-32: the whole of eigenformat(); open() raises IOError on a missing
\* input (line 27) and on an unwritable output (line 31)
eigenformat ==
    /\ pc = "eigenformat"
    /\ \/ /\ ~fs[call.inputfile].exists
          /\ pc' = "error"
          /\ log' = Append(log, Event("raise", "eigenformat", call.inputfile))
          /\ fs' = fs
       \/ /\ fs[call.inputfile].exists
          /\ call.outputfile \in ro
          /\ pc' = "error"
          /\ log' = log \o <<Event("read", "eigenformat", call.inputfile),
                             Event("raise", "eigenformat", call.outputfile)>>
          /\ fs' = fs
       \/ /\ fs[call.inputfile].exists
          /\ call.outputfile \notin ro
          /\ pc' = "converted"
          /\ fs' = [fs EXCEPT ![call.outputfile] =
                        File(EigenformatText(fs[call.inputfile].data))]
          /\ log' = log \o <<Event("read", "eigenformat", call.inputfile),
                             Event("write", "eigenformat", call.outputfile),
                             Event("return", "eigenformat", call.outputfile)>>
    /\ UNCHANGED <<args, ro, call, eigen, kpt, start, finish, scratch, written>>

\* the slip of scanning the raw file: transitions(args.input, args.output)
MainScanConvertedInput ==
    /\ pc = "converted"
    /\ pc' = "load"
    /\ call' = [inputfile |-> args.input, outputfile |-> args.output]
    /\ log' = Append(log, Event("call", "transitions", args.input))
    /\ UNCHANGED <<args, fs, ro, eigen, kpt, start, finish, scratch, written>>

\* lines 93-96: after the conversion, transitions("eigen.dat", args.output)
MainScanConverted ==
    /\ pc = "converted"
    /\ pc' = "load"
    /\ call' = [inputfile |-> "eigen.dat", outputfile |-> args.output]
    /\ log' = Append(log, Event("call", "transitions", "eigen.dat"))
    /\ UNCHANGED <<args, fs, ro, eigen, kpt, start, finish, scratch, written>>

\* lines 97-101: no --convert, transitions(args.input, args.output)
MainScanDirect ==
    /\ pc = "main"
    /\ ~args.convert
    /\ pc' = "load"
    /\ call' = [inputfile |-> args.input, outputfile |-> args.output]
    /\ log' = Append(log, Event("call", "transitions", args.input))
    /\ UNCHANGED <<args, fs, ro, eigen, kpt, start, finish, scratch, written>>

\* the slip of line 43 put before line 39: the output is opened, then the
\* table is loaded
LoadOutputOpenedFirst ==
    /\ pc = "load"
    /\ fs' = [fs EXCEPT ![call.outputfile] = File(<<>>)]
    /\ scratch' = "open"
    /\ LET exists == fs[call.inputfile].exists
           a == loadtxt(fs[call.inputfile].data)
       IN  \/ /\ ~exists
              /\ pc' = "error"
              /\ log' = Append(log, Event("raise", "transitions", call.inputfile))
              /\ eigen' = eigen
           \/ /\ exists
              /\ ~LoadOK(a)
              /\ pc' = "error"
              /\ log' = log \o <<Event("read", "transitions", call.inputfile),
                                 Event("raise", "transitions", call.inputfile)>>
              /\ eigen' = eigen
           \/ /\ exists
              /\ LoadOK(a)
              /\ pc' = "open"
              /\ log' = Append(log, Event("read", "transitions", call.inputfile))
              /\ eigen' = a
    /\ UNCHANGED <<args, ro, call, kpt, start, finish, written>>

\* lines 39-41: loadtxt, len(eigen), len(eigen[0]); any of them may raise
Load ==
    /\ pc = "load"
    /\ LET exists == fs[call.inputfile].exists
           a == loadtxt(fs[call.inputfile].data)
       IN  \/ /\ ~exists
              /\ pc' = "error"
              /\ log' = Append(log, Event("raise", "transitions", call.inputfile))
              /\ eigen' = eigen
           \/ /\ exists
              /\ ~LoadOK(a)
              /\ pc' = "error"
              /\ log' = log \o <<Event("read", "transitions", call.inputfile),
                                 Event("raise", "transitions", call.inputfile)>>
              /\ eigen' = eigen
           \/ /\ exists
              /\ LoadOK(a)
              /\ pc' = "open"
              /\ log' = Append(log, Event("read", "transitions", call.inputfile))
              /\ eigen' = a
    /\ UNCHANGED <<args, fs, ro, call, kpt, start, finish, scratch, written>>

\* where the loops of lines 44-46 stand after moving to (k, s, f)
Goto(k, s, f) ==
    LET at == Seek(k, s, f, kpts(eigen), bands(eigen))
    IN  IF at = <<>>
        THEN pc' = "close" /\ UNCHANGED <<kpt, start, finish>>
        ELSE pc' = "loop" /\ kpt' = at[1] /\ start' = at[2] /\ finish' = at[3]

\* line 43: open(outputfile, 'w') creates or truncates the file, then the
\* loops of lines 44-46 are entered
Open ==
    /\ pc = "open"
    /\ \/ /\ call.outputfile \in ro
          /\ pc' = "error"
          /\ log' = Append(log, Event("raise", "transitions", call.outputfile))
          /\ UNCHANGED <<fs, scratch, kpt, start, finish>>
       \/ /\ call.outputfile \notin ro
          /\ fs' = [fs EXCEPT ![call.outputfile] = File(<<>>)]
          /\ scratch' = "open"
          /\ log' = Append(log, Event("open", "transitions", call.outputfile))
          /\ Goto(0, 1, 2)
    /\ UNCHANGED <<args, ro, call, eigen, written>>

orig == At(eigen, kpt, start)

targ == At(eigen, kpt, finish)

diff == Abs(orig - targ)

\* lines 52-60: the texts the match at the loop position can be rendered as
Rendered ==
    IF args.gnuplot
    THEN {GnuplotLine(kpt + 1, o5, t5) :
             o5 \in Round5(orig - OFFSET), t5 \in Round5(targ - OFFSET)}
    ELSE {TextLine(diff, kpt + 1, start, finish)}

\* lines 47-51 where the test of line 51 fails: on to the next pair
BodySkip ==
    /\ pc = "loop"
    /\ ~InWindow(diff, args.energy, args.delta)
    /\ Goto(kpt, start, finish + 1)
    /\ UNCHANGED <<args, fs, ro, call, eigen, scratch, written, log>>

\* lines 47-61 where the test passes and the line is written
BodyWrite ==
    /\ pc = "loop"
    /\ InWindow(diff, args.energy, args.delta)
    /\ \E text \in Rendered :
         /\ fs' = [fs EXCEPT ![call.outputfile].data = @ \o text]
         /\ written' = Append(written, [kpt |-> kpt, start |-> start,
                                        finish |-> finish, diff |-> diff,
                                        text |-> text])
    /\ Goto(kpt, start, finish + 1)
    /\ UNCHANGED <<args, ro, call, eigen, scratch, log>>

\* line 61 raising (the device is full, the file went away): the exception
\* leaves transitions() and ends the script; line 62 is not reached
BodyRaise ==
    /\ pc = "loop"
    /\ InWindow(diff, args.energy, args.delta)
    /\ pc' = "error"
    /\ log' = Append(log, Event("raise", "transitions", call.outputfile))
    /\ UNCHANGED <<args, fs, ro, call, eigen, kpt, start, finish, scratch, written>>

\* line 62: scratch.close(), and the script ends
Close ==
    /\ pc = "close"
    /\ scratch' = "closed"
    /\ pc' = "done"
    /\ log' = Append(log, Event("return", "transitions", call.outputfile))
    /\ UNCHANGED <<args, fs, ro, call, eigen, kpt, start, finish, written>>

Next ==
    \/ MainConvert
    \/ eigenformat
    \/ MainScanConverted
    \/ MainScanDirect
    \/ Load
    \/ Open
    \/ BodySkip
    \/ BodyWrite
    \/ BodyRaise
    \/ Close

(***************************************************************************)
(* Inputs.  A table file is written from rows of fields; the fields that   *)
(* meet a bound of the tolerance window exactly are binary fractions, for  *)
(* which the float arithmetic of the script is the exact arithmetic here.  *)
(***************************************************************************)
RowText(fields) == Join(fields, " ") \o <<NL>>

RECURSIVE TableText(_)
TableText(rows) ==
    IF rows = <<>> THEN <<>> ELSE RowText(rows[1]) \o TableText(Tail(rows))

f0 == <<"0">>
f05 == <<"0", ".", "5">>
f10 == <<"1", ".", "0">>
f20 == <<"2", ".", "0">>
f2001 == <<"2", ".", "0", "0", "1">>
f2234567 == <<"2", ".", "2", "3", "4", "5", "6", "7">>
f25 == <<"2", ".", "5">>
f30 == <<"3", ".", "0">>
f35 == <<"3", ".", "5">>

\* a raw ABINIT EIG file: a preamble, then per k-point a header carrying the
\* annotation ", ... (...)" and the band energies over several lines
RawEig ==
    <<" ", "h", "d", NL>>
    \o Marker \o <<" ", "1", ",", " ", "n", " ", "(", "r", ")", NL>>
    \o <<" ">> \o f10 \o <<" ">> \o f25 \o <<NL, " ">> \o f30 \o <<NL>>
    \o Marker \o <<" ", "2", ",", " ", "n", " ", "(", "r", ")", NL>>
    \o <<" ">> \o f10 \o <<" ">> \o f20 \o <<NL, " ">> \o f35 \o <<NL>>

\* the same with one k-point only
RawEigOne ==
    <<" ", "h", "d", NL>>
    \o Marker \o <<" ", "1", ",", " ", "n", " ", "(", "r", ")", NL>>
    \o <<" ">> \o f10 \o <<" ">> \o f25 \o <<NL, " ">> \o f30 \o <<NL>>

MainFiles ==
    { File(TableText(<<<<f0, f10, f25>>>>)),
      File(TableText(<<<<f0, f10, f30>>, <<f0, f20, f2001>>>>)),
      File(TableText(<<<<f0, f10, f2234567>>, <<f0, f25, f10>>>>)),
      File(TableText(<<<<f0, f10, f25, f30>>, <<f0, f25, f10, f35>>>>)),
      File(TableText(<<<<f0, f10, f25>>, <<f0, f10>>>>)),
      File(TableText(<<<<f0, f10, f25>>, <<f0, <<"k", "p">>, f25>>>>)),
      File(TableText(<<<<f10>>, <<f25>>>>)),
      File(<<>>),
      File(RawEig),
      File(RawEigOne),
      NoFile }

\* (--energy, --delta) in micro-eV; 1000 is the default --delta of line 85
MainWindows ==
    { <<1500000, 1000>>, <<1500000, 0>>, <<1500000, 500000>>,
      <<2000000, 10000>>, <<1234567, 1000>> }

OldOutput == File(<<"o", "l", "d", NL>>)

InitLocals ==
    /\ pc = "main"
    /\ call = NoCall
    /\ eigen = NoArray
    /\ kpt = 0
    /\ start = 0
    /\ finish = 0
    /\ scratch = "none"
    /\ written = <<>>
    /\ log = <<>>

\* the script started on any command line, the input file of any kind, a
\* transitions.dat and an eigen.dat left by an earlier run or not
Init ==
    /\ \E input \in {"EIG", "eigen.dat"}, w \in MainWindows, c, g \in BOOLEAN :
         args = [input |-> input, output |-> "transitions.dat", convert |-> c,
                 energy |-> w[1], delta |-> w[2], gnuplot |-> g]
    /\ \E inp \in MainFiles, out \in {NoFile, OldOutput},
          stale \in {NoFile, File(TableText(<<<<f0, f10, f25>>, <<f0, f10, f25>>>>))} :
         fs = [p \in Paths |->
                 IF p = args.input THEN inp
                 ELSE IF p = "transitions.dat" THEN out
                 ELSE stale]
    /\ ro \in {{}, {"transitions.dat"}, {"eigen.dat"}}
    /\ InitLocals

Spec == Init /\ [][Next]_vars

(***************************************************************************)
(* The scanner on every small table: K rows of B fields, K * B fields at   *)
(* most MaxCells, the first field of a row the k-point number (as          *)
(* eigenformat() leaves it), the others energies.                          *)
(***************************************************************************)
MaxRows == 3

MaxCols == 5

MaxCells == 10

ScanFields == {f05, f20}

ScanEnergies == {500000, 1500000}

ScanDeltas == {0, 500000, 1000000}

InitScan ==
    /\ \E e \in ScanEnergies, d \in ScanDeltas, g \in BOOLEAN :
         args = [input |-> "eigen.dat", output |-> "transitions.dat",
                 convert |-> FALSE, energy |-> e, delta |-> d, gnuplot |-> g]
    /\ \E K \in 1..MaxRows, B \in 1..MaxCols :
         /\ K * B <= MaxCells
         /\ \E cells \in [(1..K) \X (2..B) -> ScanFields] :
              fs = [p \in Paths |->
                      IF p = "eigen.dat"
                      THEN File(TableText([r \in 1..K |->
                              [c \in 1..B |-> IF c = 1 THEN IntStr(r)
                                               ELSE cells[<<r, c>>]]]))
                      ELSE NoFile]
    /\ ro = {}
    /\ InitLocals

NextScan ==
    \/ MainScanDirect
    \/ Load
    \/ Open
    \/ BodySkip
    \/ BodyWrite
    \/ BodyRaise
    \/ Close

SpecScan == InitScan /\ [][NextScan]_vars

(***************************************************************************)
(* The reformatter on every short raw text put together from the pieces    *)
(* that matter to it: the marker, a marker broken over two lines, a line   *)
(* break, two energies, an annotation and a lone comma.                    *)
(***************************************************************************)
MaxPieces == 5

SplitMarker == <<"k", "p", NL, "t", "#">>

Annot == <<",", "x", ")">>

v1 == <<" ", "1">>

v2 == <<" ", "2">>

Pieces == {Marker, SplitMarker, <<NL>>, v1, v2, Annot, <<",">>}

RECURSIVE Concat(_)
Concat(ps) == IF ps = <<>> THEN <<>> ELSE ps[1] \o Concat(Tail(ps))

InitFmt ==
    /\ args = [input |-> "EIG", output |-> "transitions.dat", convert |-> TRUE,
               energy |-> 1500000, delta |-> 1000, gnuplot |-> FALSE]
    /\ \/ /\ \E n \in 0..MaxPieces : \E ps \in [1..n -> Pieces] :
               fs = [p \in Paths |-> IF p = "EIG" THEN File(Concat(ps)) ELSE NoFile]
          /\ ro = {}
       \/ /\ fs = [p \in Paths |-> NoFile]
          /\ ro = {}
       \/ /\ fs = [p \in Paths |-> IF p = "EIG" THEN File(RawEig) ELSE NoFile]
          /\ ro = {"eigen.dat"}
    /\ InitLocals

NextFmt ==
    \/ MainConvert
    \/ eigenformat

SpecFmt == InitFmt /\ [][NextFmt]_vars

(***************************************************************************)
(* What the claims speak of.                                               *)
(***************************************************************************)
Triple(r) == <<r.kpt, r.start, r.finish>>

WrittenTriples == [i \in 1..Len(written) |-> Triple(written[i])]

LexLess(a, b) ==
    \/ a[1] < b[1]
    \/ a[1] = b[1] /\ a[2] < b[2]
    \/ a[1] = b[1] /\ a[2] = b[2] /\ a[3] < b[3]

Range(q) == {q[i] : i \in 1..Len(q)}

Terminated == pc \in {"done", "error"}

\* the script ended by an exception of the given function on the given path
Raised(fn, path) == pc = "error" /\ log # <<>> /\ log[Len(log)] = Event("raise", fn, path)

\* the output file handed to transitions() could not be written to
WriteRaised == Raised("transitions", "transitions.dat")

\* the table a file holds, as the claims see it: its rows of fields
TableOf(text) == DataLines(text)

\* the whole of the loops of lines 44-51 as a function of the array and the
\* window: the triples that pass the test of line 51, in loop order
RECURSIVE ScanFrom(_, _, _, _)
ScanFrom(a, at, energy, delta) ==
    IF at = <<>> THEN <<>>
    ELSE (IF InWindow(Abs(At(a, at[1], at[2]) - At(a, at[1], at[3])), energy, delta)
          THEN <<at>> ELSE <<>>)
         \o ScanFrom(a, Seek(at[1], at[2], at[3] + 1, kpts(a), bands(a)), energy, delta)

Scan(a, energy, delta) == ScanFrom(a, Seek(0, 1, 2, kpts(a), bands(a)), energy, delta)

(***************************************************************************)
(* C1 (as claimed; refuted by the one-row table of C3).  For a rectangular *)
(* table of K rows and B columns, a run that ends without a write error    *)
(* has written one line for (kpt, start, finish) exactly when              *)
(* 0 <= kpt <= K-1, 1 <= start < finish <= B-1 and the absolute difference *)
(* of the two fields lies in [energy - delta, energy + delta], and no      *)
(* triple twice.                                                           *)
(***************************************************************************)
C1_Expected ==
    LET t == TableOf(fs[args.input].data)
        K == Len(t)
        B == Len(t[1])
    IN  {x \in (0..(K - 1)) \X (1..(B - 1)) \X (1..(B - 1)) :
           /\ x[2] < x[3]
           /\ InWindow(Abs(ParseFloat(t[x[1] + 1][x[2] + 1])
                           - ParseFloat(t[x[1] + 1][x[3] + 1])),
                       args.energy, args.delta)}

C1_AsClaimed ==
    (Terminated /\ ~WriteRaised) =>
        /\ Range(WrittenTriples) = C1_Expected
        /\ Len(written) = Cardinality(C1_Expected)

\* C1 short of the tables the load of C3 refuses: for a table of two or more
\* rows and two or more columns the run writes exactly the triples of C1
C1_FromTwoRows ==
    ( /\ Terminated
      /\ ~WriteRaised
      /\ Len(TableOf(fs[args.input].data)) >= 2
      /\ Len(TableOf(fs[args.input].data)[1]) >= 2 )
    => /\ Range(WrittenTriples) = C1_Expected
       /\ Len(written) = Cardinality(C1_Expected)

(***************************************************************************)
(* C2.  The match records are written in strictly increasing              *)
(* lexicographic order of (kpt, start, finish), so none twice, and the     *)
(* output file holds their lines in that order and nothing else.           *)
(***************************************************************************)
C2_Ordered ==
    /\ \A i, j \in 1..Len(written) :
         i < j => LexLess(Triple(written[i]), Triple(written[j]))
    /\ scratch # "none" =>
         fs[call.outputfile].data = Concat([i \in 1..Len(written) |-> written[i].text])

C2_Witness ==
    /\ pc = "done"
    /\ Len(written) >= 4
    /\ written[1].kpt = written[2].kpt /\ written[1].start = written[2].start
    /\ written[2].kpt = written[3].kpt /\ written[2].start < written[3].start
    /\ written[3].kpt < written[4].kpt

(***************************************************************************)
(* C3 (as claimed; refuted).  For the table file of the single row         *)
(* 0 1.0 2.5, --energy 1.5 and --delta 0.001 or 0, the run loads a table   *)
(* of 1 row by 3 columns and writes exactly one match record, for kpt=0,   *)
(* start=1, finish=2, diff=1.5.                                            *)
(***************************************************************************)
C3_AsClaimed ==
    ( /\ ~args.convert
      /\ fs[args.input] = File(TableText(<<<<f0, f10, f25>>>>))
      /\ args.energy = 1500000
      /\ args.delta \in {1000, 0}
      /\ ro = {}
      /\ Terminated
      /\ ~WriteRaised )
    => /\ LoadOK(eigen)
       /\ kpts(eigen) = 1
       /\ bands(eigen) = 3
       /\ Len(written) = 1
       /\ Triple(written[1]) = <<0, 1, 2>>
       /\ written[1].diff = 1500000

(***************************************************************************)
(* C4.  In descriptive-text mode the match with diff=1.234567, kpt=0,      *)
(* start=1, finish=2 is written as one line.  As claimed (refuted) the     *)
(* line is `001.234567 eV | k-point: 001 | bands: 01 -> 02`; as amended it *)
(* is `01.234567 eV | k-point: 001 | bands: 01 -> 02`, the difference      *)
(* taking the 9 characters of its field.                                   *)
(***************************************************************************)
C4_Case(r) ==
    ~args.gnuplot /\ r.diff = 1234567 /\ Triple(r) = <<0, 1, 2>>

C4_Tail ==
    <<" ", "e", "V", " ", "|", " ", "k", "-", "p", "o", "i", "n", "t", ":", " ",
      "0", "0", "1", " ", "|", " ", "b", "a", "n", "d", "s", ":", " ",
      "0", "1", " ", "-", ">", " ", "0", "2", NL>>

C4_AsClaimed ==
    \A i \in 1..Len(written) :
        C4_Case(written[i]) =>
            written[i].text =
                <<"0", "0", "1", ".", "2", "3", "4", "5", "6", "7">> \o C4_Tail

C4_NineWide ==
    \A i \in 1..Len(written) :
        C4_Case(written[i]) =>
            /\ written[i].text =
                 <<"0", "1", ".", "2", "3", "4", "5", "6", "7">> \o C4_Tail
            /\ i = 1
            /\ SubSeq(fs[call.outputfile].data, 1, Len(written[i].text)) = written[i].text

C4_Witness ==
    /\ pc = "done"
    /\ Len(written) >= 1
    /\ C4_Case(written[1])

(***************************************************************************)
(* C5.  When eigenformat() has returned, its output has exactly N lines    *)
(* (N >= 1), line i being record i without its annotation, the text before *)
(* the first marker dropped; no output line holds a comma followed later   *)
(* by a closing parenthesis; and for N = 0 the output is of zero content.  *)
(* As claimed (refuted), N is the number of markers `kpt#` in the raw      *)
(* text; as amended, N is their number once the line breaks of the raw     *)
(* text are removed.                                                       *)
(***************************************************************************)
RECURSIVE CountFrom(_, _, _)
CountFrom(s, m, i) ==
    IF i > Len(s) THEN 0
    ELSE IF MatchAt(s, m, i) THEN 1 + CountFrom(s, m, i + Len(m))
    ELSE CountFrom(s, m, i + 1)

Count(s, m) == CountFrom(s, m, 1)

HasAnnotation(line) ==
    \E i, j \in 1..Len(line) : i < j /\ line[i] = "," /\ line[j] = ")"

RawText == fs[args.input].data

Converted == fs["eigen.dat"].data

\* the records of the raw text: what follows each marker, line breaks removed
Records(raw) == Tail(Split(Replace(Replace(raw, <<NL>>, <<>>), Marker, <<NL>>), NL))

C5_Shape(N) ==
    /\ fs["eigen.dat"].exists
    /\ N = 0 => Converted = <<>>
    /\ N >= 1 =>
         /\ Len(Split(Converted, NL)) = N
         /\ \A i \in 1..N : Split(Converted, NL)[i] = ReSub(Records(RawText)[i])
    /\ \A i \in 1..Len(Split(Converted, NL)) : ~HasAnnotation(Split(Converted, NL)[i])

C5_AsClaimed == pc = "converted" => C5_Shape(Count(RawText, Marker))

C5_MarkersAfterJoining ==
    pc = "converted" => C5_Shape(Count(Replace(RawText, <<NL>>, <<>>), Marker))

C5_Witness ==
    /\ pc = "converted"
    /\ Count(Replace(RawText, <<NL>>, <<>>), Marker) = 2
    /\ Count(RawText, Marker) = 1
    /\ Count(RawText, Annot) = 1
    /\ Len(Converted) < Len(RawText) - 8

(***************************************************************************)
(* C6 (as claimed; refuted).  For a record in which two or more energy     *)
(* values are each followed by their own annotation `,x)`, the output line *)
(* of the record holds every energy value of the record, in order, as      *)
(* whitespace-separated numeric fields and nothing else.                   *)
(***************************************************************************)
RECURSIVE IsAnnotated(_)
IsAnnotated(rec) ==
    \/ rec = <<>>
    \/ /\ Len(rec) >= 5
       /\ rec[1] = " "
       /\ IsDigit(rec[2])
       /\ SubSeq(rec, 3, 5) = Annot
       /\ IsAnnotated(Slice(rec, 6, Len(rec)))

AnnotatedValues(rec) == [i \in 1..(Len(rec) \div 5) |-> <<rec[5 * (i - 1) + 2]>>]

C6_AsClaimed ==
    pc = "converted" =>
        \A i \in 1..Len(Records(RawText)) :
            (IsAnnotated(Records(RawText)[i]) /\ Len(Records(RawText)[i]) >= 10) =>
                Fields(Split(Converted, NL)[i]) = AnnotatedValues(Records(RawText)[i])

(***************************************************************************)
(* C7.  A run whose table fails to load (the file is missing, a field is   *)
(* no number, the rows differ in length) ends in an error at the load, and *)
(* no step up to and including the load opens, creates, truncates or       *)
(* writes the output file; the error ends the run.                         *)
(***************************************************************************)
C7_BadTable(text) ==
    LET t == TableOf(text)
    IN  \E r \in 1..Len(t) :
          \/ Len(t[r]) # Len(t[1])
          \/ \E c \in 1..Len(t[r]) : ~IsFloat(t[r][c])

C7_LoadFailsFirst ==
    [][ /\ ~Terminated
        /\ pc \in {"main", "eigenformat", "converted", "load"} =>
             /\ fs'[args.output] = fs[args.output]
             /\ scratch' = "none"
             /\ written' = <<>>
        /\ ( /\ pc = "load"
             /\ \/ ~fs[call.inputfile].exists
                \/ C7_BadTable(fs[call.inputfile].data) )
           => pc' = "error" ]_vars

C7_Witness ==
    /\ Raised("transitions", call.inputfile)
    /\ fs[call.inputfile].exists
    /\ C7_BadTable(fs[call.inputfile].data)
    /\ Len(TableOf(fs[call.inputfile].data)) = 2
    /\ fs[args.output] = OldOutput

(***************************************************************************)
(* C8.  For a fixed table and a fixed energy, a finished run has written   *)
(* the triples the scan passes at its delta, and every one of them is also *)
(* passed at every larger delta, so the number of match records does not   *)
(* fall as delta grows.                                                    *)
(***************************************************************************)
C8_DeltaMonotone ==
    pc = "done" =>
        /\ WrittenTriples = Scan(eigen, args.energy, args.delta)
        /\ \A d2 \in ScanDeltas :
             d2 >= args.delta =>
               /\ Range(WrittenTriples) \subseteq Range(Scan(eigen, args.energy, d2))
               /\ Len(written) <= Len(Scan(eigen, args.energy, d2))

C8_Witness ==
    /\ pc = "done"
    /\ Len(written) >= 1
    /\ \E d2 \in ScanDeltas :
         d2 > args.delta /\ Len(Scan(eigen, args.energy, d2)) > Len(written)

(***************************************************************************)
(* C9.  With --convert the script calls eigenformat() on --input, which    *)
(* reads it and writes eigen.dat, and only after its return calls          *)
(* transitions(), on eigen.dat as eigenformat() left it and not on         *)
(* --input; if eigenformat() raises, transitions() is never called.        *)
(* Without --convert nothing but transitions() runs, on --input, and       *)
(* eigen.dat is not written.  transitions() is called at most once, and    *)
(* once in every run that gets to it.                                      *)
(***************************************************************************)
LogIdx == 1..Len(log)

C9_Sequencing ==
    /\ pc \in {"main", "eigenformat", "converted"} =>
         \A i \in LogIdx : log[i].fn # "transitions"
    /\ pc \in {"load", "open", "loop", "close", "done"} =>
         Cardinality({i \in LogIdx : log[i] = Event("call", "transitions", call.inputfile)}) = 1
    /\ Cardinality({i \in LogIdx : log[i].op = "call" /\ log[i].fn = "transitions"}) <= 1
    /\ args.convert =>
         /\ log # <<>> => log[1] = Event("call", "eigenformat", args.input)
         /\ \A i \in LogIdx :
              log[i].fn = "eigenformat" /\ log[i].op = "read" => log[i].path = args.input
         /\ \A i \in LogIdx :
              log[i].fn = "transitions" =>
                /\ log[i].op \in {"call", "read"} => log[i].path = "eigen.dat"
                /\ args.input # "eigen.dat" => log[i].path # args.input
                /\ \E j \in 1..(i - 2) :
                     /\ log[j] = Event("write", "eigenformat", "eigen.dat")
                     /\ log[j + 1] = Event("return", "eigenformat", "eigen.dat")
                /\ args.input # "eigen.dat" =>
                     fs["eigen.dat"] = File(EigenformatText(fs[args.input].data))
         /\ (\E i \in LogIdx : log[i].fn = "eigenformat" /\ log[i].op = "raise") =>
              /\ pc = "error"
              /\ \A i \in LogIdx : log[i].fn # "transitions"
    /\ ~args.convert =>
         /\ \A i \in LogIdx : log[i].fn = "transitions"
         /\ \A i \in LogIdx : log[i].op \in {"call", "read"} => log[i].path = args.input
         /\ \A i \in LogIdx : log[i].op \in {"write", "open"} => log[i].path # "eigen.dat"

C9_Witness ==
    /\ args.convert
    /\ args.input = "EIG"
    /\ pc = "done"
    /\ Len(written) >= 1
    /\ fs["eigen.dat"].data # fs["EIG"].data

(***************************************************************************)
(* C10 (as claimed; refuted).  The output file handle opened by            *)
(* transitions() is closed when the run has ended: after the scan ran      *)
(* through, and also after a write failed when some match records had      *)
(* already been written.                                                   *)
(***************************************************************************)
C10_AsClaimed ==
    /\ pc = "done" => scratch = "closed"
    /\ (pc = "error" /\ Len(written) >= 1) => scratch = "closed"

====
